---------------------------- MODULE Spec2Model ----------------------------
(***************************************************************************)
(* A model of the WorldTradingData client (src/api.py, src/api_paths.py).  *)
(*                                                                         *)
(* Python strings are TLA+ strings (TLC evaluates Len, \o and SubSeq on    *)
(* them).  A Python value is a record [t, v]: t is its type, v its         *)
(* payload.  The state is the one client object (its api_key) and the      *)
(* record of the caller's most recent call: the method, the arguments, the *)
(* URL it requested, the response it was served and how it ended.          *)
(***************************************************************************)
EXTENDS Integers, Sequences, FiniteSets, TLC

VARIABLES
    constructed,  \* TRUE once WTDApi.__init__ has returned an instance
    api_key,      \* self.api_key
    last          \* the caller's most recent call and its outcome

vars == <<constructed, api_key, last>>

-----------------------------------------------------------------------------
(* Python values *)

None == [t |-> "None", v |-> 0]
Unset == [t |-> "unset", v |-> 0]     \* an argument the caller leaves out
S(s) == [t |-> "str", v |-> s]
I(n) == [t |-> "int", v |-> n]
B(b) == [t |-> "bool", v |-> b]
L(xs) == [t |-> "list", v |-> xs]

(* the value a parameter takes: the caller's, or the signature's default *)
Arg(given, default) == IF given = Unset THEN default ELSE given

(* Python truthiness of the values above (the `not api_key` of __init__) *)
Truthy(x) ==
    CASE x.t = "None" -> FALSE
      [] x.t = "str"  -> x.v # ""
      [] x.t = "int"  -> x.v # 0
      [] x.t = "bool" -> x.v
      [] x.t = "list" -> x.v # <<>>

Digit(d) == SubSeq("0123456789", d + 1, d + 1)

RECURSIVE NatStr(_)
NatStr(n) == IF n < 10 THEN Digit(n) ELSE NatStr(n \div 10) \o Digit(n % 10)

(* str(x) for a scalar or None *)
str(x) ==
    CASE x.t = "str"  -> x.v
      [] x.t = "int"  -> IF x.v < 0 THEN "-" \o NatStr(-x.v) ELSE NatStr(x.v)
      [] x.t = "bool" -> IF x.v THEN "True" ELSE "False"
      [] x.t = "None" -> "None"

(* a faulty join: a comma after every element, the last one too *)
RECURSIVE join_TrailingComma(_)
join_TrailingComma(xs) ==
    IF xs = <<>> THEN "" ELSE str(xs[1]) \o "," \o join_TrailingComma(Tail(xs))

(* ",".join(str(x) for x in value) *)
RECURSIVE join(_)
join(xs) ==
    IF xs = <<>> THEN ""
    ELSE IF Len(xs) = 1 THEN str(xs[1])
    ELSE str(xs[1]) \o "," \o join(Tail(xs))

-----------------------------------------------------------------------------
(* src/api_paths.py *)

(* a faulty registry: the two forex history entries exchanged *)
API_Exchanged ==
    [ stock            |-> "https://www.worldtradingdata.com/api/v1/stock",
      mutual_fund      |-> "https://www.worldtradingdata.com/api/v1/mutualfund",
      intraday         |-> "https://www.worldtradingdata.com/api/v1/intraday",
      history          |-> "https://www.worldtradingdata.com/api/v1/history",
      history_msd      |-> "https://www.worldtradingdata.com/api/v1/history_multi_single_day",
      forex            |-> "https://www.worldtradingdata.com/api/v1/forex",
      forex_history    |-> "https://www.worldtradingdata.com/api/v1/forex_single_day",
      forex_single_day |-> "https://www.worldtradingdata.com/api/v1/forex_history",
      search           |-> "https://www.worldtradingdata.com/api/v1/stock_search" ]

API ==
    [ stock            |-> "https://www.worldtradingdata.com/api/v1/stock",
      mutual_fund      |-> "https://www.worldtradingdata.com/api/v1/mutualfund",
      intraday         |-> "https://www.worldtradingdata.com/api/v1/intraday",
      history          |-> "https://www.worldtradingdata.com/api/v1/history",
      history_msd      |-> "https://www.worldtradingdata.com/api/v1/history_multi_single_day",
      forex            |-> "https://www.worldtradingdata.com/api/v1/forex",
      forex_history    |-> "https://www.worldtradingdata.com/api/v1/forex_history",
      forex_single_day |-> "https://www.worldtradingdata.com/api/v1/forex_single_day",
      search           |-> "https://www.worldtradingdata.com/api/v1/stock_search" ]

-----------------------------------------------------------------------------
(* src/api.py *)

SUCCESS == 200

(* the outcome of a call: how it ended, the value returned, the exception's text *)
Returned(value) == [kind |-> "return", value |-> value, detail |-> ""]
Raised(exc, detail) == [kind |-> exc, value |-> None, detail |-> detail]

(* json.loads on the bodies the mocked transport serves: a JSON literal, a  *)
(* number or an empty array decodes, anything else is malformed             *)
IsDigits(text) ==
    /\ Len(text) > 0
    /\ \A i \in 1..Len(text) : \E d \in 0..9 : SubSeq(text, i, i) = Digit(d)

RECURSIVE ParseNat(_)
ParseNat(text) ==
    IF text = "" THEN 0
    ELSE 10 * ParseNat(SubSeq(text, 1, Len(text) - 1))
         + (CHOOSE d \in 0..9 : Digit(d) = SubSeq(text, Len(text), Len(text)))

json_loads(text) ==
    CASE text = "null"  -> Returned(None)
      [] text = "true"  -> Returned(B(TRUE))
      [] text = "false" -> Returned(B(FALSE))
      [] text = "[]"    -> Returned(L(<<>>))
      [] IsDigits(text) -> Returned(I(ParseNat(text)))
      [] OTHER          -> Raised("JSONDecodeError", "")

(* a faulty _get_api_response: the error text leaves the body out *)
get_api_response_NoBody(resp) ==
    IF resp.status_code # SUCCESS
    THEN Raised("APIAccessError", "Error: ")
    ELSE json_loads(resp.text)

(* a faulty _get_api_response: the body is decoded before the status is read *)
get_api_response_DecodeFirst(resp) ==
    LET decoded == json_loads(resp.text) IN
    IF decoded.kind # "return" THEN decoded
    ELSE IF resp.status_code # SUCCESS
         THEN Raised("APIAccessError", "Error: " \o resp.text)
         ELSE decoded

(* _get_api_response, given the response requests.get(url) came back with *)
get_api_response(resp) ==
    IF resp.status_code # SUCCESS
    THEN Raised("APIAccessError", "Error: " \o resp.text)
    ELSE json_loads(resp.text)

(* a faulty loop body: no `continue` for None *)
Fragment_NoSkip(key, value) ==
    IF value.t = "list"
    THEN key \o "=" \o join(value.v) \o "&"
    ELSE key \o "=" \o str(value) \o "&"

(* a faulty loop body: `if not value` in place of `if value == None` *)
Fragment_SkipFalsy(key, value) ==
    IF ~Truthy(value) THEN ""
    ELSE IF value.t = "list"
         THEN key \o "=" \o join(value.v) \o "&"
         ELSE key \o "=" \o str(value) \o "&"

(* one turn of the loop of _build_misc_string: what `misc += key` appends *)
Fragment(key, value) ==
    IF value = None THEN ""
    ELSE IF value.t = "list"
         THEN key \o "=" \o join(value.v) \o "&"
         ELSE key \o "=" \o str(value) \o "&"

RECURSIVE Fragments(_)
Fragments(kwargs) ==
    IF kwargs = <<>> THEN ""
    ELSE Fragment(kwargs[1][1], kwargs[1][2]) \o Fragments(Tail(kwargs))

(* a faulty _build_misc_string: the token written first *)
build_misc_string_TokenFirst(key, kwargs) ==
    IF key.t # "str"
    THEN [ok |-> FALSE, s |-> ""]
    ELSE [ok |-> TRUE, s |-> "?api_token=" \o key.v \o "&" \o Fragments(kwargs)]

(* _build_misc_string: "api_token=" + self.api_key is a TypeError unless *)
(* self.api_key is a str                                                  *)
build_misc_string(key, kwargs) ==
    IF key.t # "str"
    THEN [ok |-> FALSE, s |-> ""]
    ELSE [ok |-> TRUE, s |-> "?" \o Fragments(kwargs) \o "api_token=" \o key.v]


-----------------------------------------------------------------------------
(* The caller's inputs and the mocked transport's responses *)

MaxListLen == 2

Tokens == {None, S(""), S("k1"), S("k2")}

Elems == {S("A"), I(3)}
Lists == {L(xs) : xs \in UNION {[1..n -> Elems] : n \in 0..MaxListLen}}

Statuses == {200, 404}
Bodies == {"7", "not found"}
Responses == [status_code : Statuses, text : Bodies]
NoResponse == [status_code |-> 0, text |-> ""]

(* how many of the arguments the caller sets; search is called with at most *)
(* two of its seven optional arguments set, or with at most two left out    *)
NumSet(args) == Cardinality({i \in 1..Len(args) : args[i] # Unset})

OpNames ==
    {"stocks", "mutual_fund", "intraday", "historic_data",
     "historic_multi_single_day", "forex", "forex_historic",
     "forex_historic_single_day", "search"}

-----------------------------------------------------------------------------
(* The client *)

(* the record of a call that made no request *)
Call(op, args, out) ==
    [op |-> op, args |-> args, gets |-> 0, url |-> "", resp |-> NoResponse,
     out |-> out]

Init ==
    /\ constructed = FALSE
    /\ api_key = None
    /\ last = Call("none", <<>>, Returned(None))

(* a faulty check: `api_key is None` in place of `not api_key` *)
KeyMissing_NoneOnly(key) == key = None

(* the check of WTDApi.__init__ *)
KeyMissing(key) == ~Truthy(key)

(* WTDApi(api_key): raises APIKeyNotSet and leaves no instance, or stores the key *)
WTDApi_init ==
    /\ ~constructed
    /\ \E given \in Tokens \cup {Unset} :
        LET key == Arg(given, None) IN
        IF KeyMissing(key)
        THEN /\ last' = Call("__init__", <<given>>, Raised("APIKeyNotSet", ""))
             /\ UNCHANGED <<constructed, api_key>>
        ELSE /\ constructed' = TRUE
             /\ api_key' = key
             /\ last' = Call("__init__", <<given>>, Returned(None))

(* a faulty setter: the stored key is kept *)
NewKey_Kept(old, key) == old

(* a faulty setter: an empty or None key is dropped, as __init__ would refuse it *)
NewKey_Checked(old, key) == IF Truthy(key) THEN key ELSE old

(* the value set_api_key stores *)
NewKey(old, key) == key

set_api_key ==
    /\ constructed
    /\ \E key \in Tokens :
        /\ api_key' = NewKey(api_key, key)
        /\ last' = Call("set_api_key", <<key>>, Returned(None))
        /\ UNCHANGED constructed

(* The body shared by the nine operation methods:                           *)
(*   url = API[...] + self._build_misc_string(...)                          *)
(*   return _get_api_response(url)                                          *)
(* A TypeError out of the builder ends the call before requests.get.        *)
Invoke(op, args, base, kwargs) ==
    LET misc == build_misc_string(api_key, kwargs) IN
    IF ~misc.ok
    THEN /\ last' = Call(op, args, Raised("TypeError", ""))
         /\ UNCHANGED <<constructed, api_key>>
    ELSE \E resp \in Responses :
         /\ last' = [op |-> op, args |-> args, gets |-> 1, url |-> base \o misc.s,
                     resp |-> resp, out |-> get_api_response(resp)]
         /\ UNCHANGED <<constructed, api_key>>

stocks ==
    /\ constructed
    /\ \E symbols \in {S("AAPL"), S("")} \cup Lists,
          sort_by \in {Unset, S("name")},
          sort_order \in {Unset, S("asc")} :
        Invoke("stocks", <<symbols, sort_by, sort_order>>, API.stock,
               << <<"symbol", symbols>>,
                  <<"sort_by", Arg(sort_by, None)>>,
                  <<"sort_order", Arg(sort_order, None)>> >>)

mutual_fund ==
    /\ constructed
    /\ \E symbols \in {S("VFINX"), L(<<S("VFINX"), S("FXAIX")>>)},
          sort_order \in {Unset, S("desc")},
          sort_by \in {Unset, S("symbol")} :
        Invoke("mutual_fund", <<symbols, sort_order, sort_by>>, API.mutual_fund,
               << <<"symbol", symbols>>,
                  <<"sort_order", Arg(sort_order, None)>>,
                  <<"sort_by", Arg(sort_by, None)>> >>)

intraday ==
    /\ constructed
    /\ \E symbol \in {S("AAPL")},
          interval \in {Unset, None, I(0)},
          range \in {Unset, I(30)},
          sort \in {Unset, S("asc")},
          formatted \in {Unset, B(FALSE)} :
        Invoke("intraday", <<symbol, interval, range, sort, formatted>>,
               API.intraday,
               << <<"symbol", symbol>>,
                  <<"interval", Arg(interval, I(1))>>,
                  <<"range", Arg(range, I(7))>>,
                  <<"sort", Arg(sort, None)>>,
                  <<"formatted", Arg(formatted, None)>> >>)

historic_data ==
    /\ constructed
    /\ \E symbol \in {S("AAPL")},
          date_from \in {Unset, S("2019-01-01")},
          date_to \in {Unset, S("2019-02-01")},
          sort \in {Unset, S("newest")},
          formatted \in {Unset, B(TRUE)} :
        Invoke("historic_data", <<symbol, date_from, date_to, sort, formatted>>,
               API.history,
               << <<"symbol", symbol>>,
                  <<"date_from", Arg(date_from, None)>>,
                  <<"date_to", Arg(date_to, None)>>,
                  <<"sort", Arg(sort, None)>>,
                  <<"formatted", Arg(formatted, None)>> >>)

historic_multi_single_day ==
    /\ constructed
    /\ \E symbol \in {S("AAPL"), L(<<S("AAPL"), S("MSFT")>>)},
          date \in {S("2019-01-02")},
          sort \in {Unset, S("asc")},
          formatted \in {Unset, B(FALSE)} :
        Invoke("historic_multi_single_day", <<symbol, date, sort, formatted>>,
               API.history_msd,
               << <<"symbol", symbol>>,
                  <<"date", date>>,
                  <<"sort", Arg(sort, None)>>,
                  <<"formatted", Arg(formatted, None)>> >>)

forex ==
    /\ constructed
    /\ \E base \in {S("USD"), S("")} :
        Invoke("forex", <<base>>, API.forex, << <<"base", base>> >>)

forex_historic ==
    /\ constructed
    /\ \E base \in {S("USD")},
          convert_to \in {S("GBP")},
          sort \in {Unset, S("oldest")},
          formatted \in {Unset, B(TRUE)} :
        Invoke("forex_historic", <<base, convert_to, sort, formatted>>,
               API.forex_history,
               << <<"base", base>>,
                  <<"convert_to", convert_to>>,
                  <<"sort", Arg(sort, None)>>,
                  <<"formatted", Arg(formatted, None)>> >>)

forex_historic_single_day ==
    /\ constructed
    /\ \E base \in {S("USD")},
          date \in {S("2019-01-02")},
          formatted \in {Unset, S("true")} :
        Invoke("forex_historic_single_day", <<base, date, formatted>>,
               API.forex_single_day,
               << <<"base", base>>,
                  <<"date", date>>,
                  <<"formatted", Arg(formatted, None)>> >>)

search ==
    /\ constructed
    /\ \E search_term \in {S("apple")},
          search_by \in {Unset, S("name")},
          stock_exchange \in {Unset, L(<<S("NYSE"), S("NASDAQ")>>)},
          currency \in {Unset, L(<<>>)},
          limit \in {Unset, I(0)},
          page \in {Unset, I(12)},
          sort_by \in {Unset, S("currency")},
          sort_order \in {Unset, S("desc")} :
        /\ NumSet(<<search_by, stock_exchange, currency, limit, page, sort_by,
                    sort_order>>) \notin 3..4
        /\ Invoke("search",
               <<search_term, search_by, stock_exchange, currency, limit, page,
                 sort_by, sort_order>>,
               API.search,
               << <<"search_term", search_term>>,
                  <<"search_by", Arg(search_by, None)>>,
                  <<"stock_exchange", Arg(stock_exchange, None)>>,
                  <<"currency", Arg(currency, None)>>,
                  <<"limit", Arg(limit, None)>>,
                  <<"page", Arg(page, None)>>,
                  <<"sort_by", Arg(sort_by, None)>>,
                  <<"sort_order", Arg(sort_order, None)>> >>)

Next ==
    \/ WTDApi_init
    \/ set_api_key
    \/ stocks
    \/ mutual_fund
    \/ intraday
    \/ historic_data
    \/ historic_multi_single_day
    \/ forex
    \/ forex_historic
    \/ forex_historic_single_day
    \/ search

Spec == Init /\ [][Next]_vars

-----------------------------------------------------------------------------
(* Reading a URL back: what the remote end sees *)

Occurs(s, sub) ==
    {i \in 1..(Len(s) - Len(sub) + 1) : SubSeq(s, i, i + Len(sub) - 1) = sub}
Contains(s, sub) == Occurs(s, sub) # {}
StartsWith(s, pre) == Len(s) >= Len(pre) /\ SubSeq(s, 1, Len(pre)) = pre
EndsWith(s, suf) ==
    Len(s) >= Len(suf) /\ SubSeq(s, Len(s) - Len(suf) + 1, Len(s)) = suf
Least(xs) == CHOOSE m \in xs : \A x \in xs : m <= x

(* where the fragment `name=...` starts: right after the "?" or after a "&" *)
FragmentAt(url, name) ==
    Occurs(url, "?" \o name \o "=") \cup Occurs(url, "&" \o name \o "=")
HasFragment(url, name) == FragmentAt(url, name) # {}

(* the text of the fragment `name=value&`, from its name to its "&" included *)
(* (to the end of the URL for the last fragment)                              *)
FragmentText(url, name) ==
    LET from == Least(FragmentAt(url, name)) + 1
        amps == {j \in from..Len(url) : SubSeq(url, j, j) = "&"}
    IN  IF amps = {} THEN SubSeq(url, from, Len(url))
        ELSE SubSeq(url, from, Least(amps))

(* the pieces of text between the commas of s *)
RECURSIVE Split(_)
Split(s) ==
    LET commas == Occurs(s, ",") IN
    IF commas = {} THEN <<s>>
    ELSE <<SubSeq(s, 1, Least(commas) - 1)>>
         \o Split(SubSeq(s, Least(commas) + 1, Len(s)))

(* The signatures as the documentation gives them: for each operation the   *)
(* query names of its arguments in order, how many of them are required,    *)
(* and the text of the defaults that are not None                           *)
Names ==
    [ stocks |-> <<"symbol", "sort_by", "sort_order">>,
      mutual_fund |-> <<"symbol", "sort_order", "sort_by">>,
      intraday |-> <<"symbol", "interval", "range", "sort", "formatted">>,
      historic_data |-> <<"symbol", "date_from", "date_to", "sort", "formatted">>,
      historic_multi_single_day |-> <<"symbol", "date", "sort", "formatted">>,
      forex |-> <<"base">>,
      forex_historic |-> <<"base", "convert_to", "sort", "formatted">>,
      forex_historic_single_day |-> <<"base", "date", "formatted">>,
      search |-> <<"search_term", "search_by", "stock_exchange", "currency",
                   "limit", "page", "sort_by", "sort_order">> ]
Required ==
    [ stocks |-> 1, mutual_fund |-> 1, intraday |-> 1, historic_data |-> 1,
      historic_multi_single_day |-> 2, forex |-> 1, forex_historic |-> 2,
      forex_historic_single_day |-> 2, search |-> 1 ]
Optionals(op) == (Required[op] + 1)..Len(Names[op])
HasDefault(op, i) == op = "intraday" /\ i \in {2, 3}
DefaultText(i) == IF i = 2 THEN "interval=1&" ELSE "range=7&"

IsOp == last.op \in OpNames
Requested == IsOp /\ last.gets = 1

-----------------------------------------------------------------------------
(* The claims *)

(* C1: constructing a client with an absent, None or empty token raises     *)
(* APIKeyNotSet and yields no client; constructing with a non-empty token   *)
(* succeeds and stores exactly that token.                                  *)
C1_Construction ==
    last.op = "__init__" =>
        IF last.args[1] \in {Unset, None, S("")}
        THEN last.out.kind = "APIKeyNotSet" /\ ~constructed
        ELSE last.out.kind = "return" /\ constructed /\ api_key = last.args[1]

C1_Witness ==
    last.op = "__init__" /\ last.args[1] = S("") /\ last.out.kind = "APIKeyNotSet"

(* C2: whatever the operation, a response whose status is not 200 makes the *)
(* call raise APIAccessError with the raw body in its text, and nothing is  *)
(* decoded or returned.                                                     *)
C2_NotSuccessRaises ==
    (Requested /\ last.resp.status_code # 200) =>
        /\ last.out.kind = "APIAccessError"
        /\ Contains(last.out.detail, last.resp.text)
        /\ last.out.value = None

C2_Witness ==
    /\ last.op = "forex_historic_single_day"
    /\ last.resp = [status_code |-> 404, text |-> "not found"]
    /\ last.out.detail = "Error: not found"

(* C3, as stated: in every URL an operation builds, an optional argument    *)
(* the caller leaves out has no `name=` fragment, interval and range of     *)
(* intraday included.                                                       *)
C3_UnsetAbsent ==
    Requested =>
        \A i \in Optionals(last.op) :
            last.args[i] = Unset => ~HasFragment(last.url, Names[last.op][i])

(* C3, amended: an optional argument the caller leaves out has no `name=`   *)
(* fragment when its default is None; interval and range of intraday left   *)
(* out appear with their defaults, as `interval=1&` and `range=7&`.         *)
C3_UnsetAbsentOrDefault ==
    Requested =>
        \A i \in Optionals(last.op) :
            last.args[i] = Unset =>
                IF HasDefault(last.op, i)
                THEN FragmentText(last.url, Names[last.op][i]) = DefaultText(i)
                ELSE ~HasFragment(last.url, Names[last.op][i])

C3_Witness ==
    /\ last.op = "intraday" /\ last.gets = 1
    /\ last.args[2] = Unset /\ last.args[3] = Unset /\ last.args[4] = Unset
    /\ last.args[5] = B(FALSE)

(* C4: every URL an operation builds ends with the fragment                 *)
(* `api_token=<stored token>`: it is there once, it is the last fragment    *)
(* and no "&" follows it, whichever arguments are set and whatever          *)
(* set_api_key calls came before.                                           *)
C4_TokenLast ==
    Requested =>
        /\ api_key.t = "str"
        /\ EndsWith(last.url, "api_token=" \o api_key.v)
        /\ FragmentAt(last.url, "api_token")
               = {Len(last.url) - Len("api_token=" \o api_key.v)}
        /\ ~EndsWith(last.url, "&")

C4_Witness ==
    /\ last.op = "search" /\ last.gets = 1 /\ api_key = S("")
    /\ NumSet(last.args) = 8

(* C5: set_api_key(t) makes t the stored token, an operation call never     *)
(* changes the stored token, and the URL an operation call builds carries   *)
(* the token stored when it is called, so every URL built after             *)
(* set_api_key(t) and before the next set_api_key ends with `api_token=t`.  *)
C5_Step ==
    /\ last'.op = "set_api_key" => api_key' = last'.args[1]
    /\ last'.op \in OpNames =>
        /\ api_key' = api_key
        /\ last'.gets = 1 => EndsWith(last'.url, "&api_token=" \o api_key.v)
C5_TokenFollowsSetter == [][C5_Step]_vars

C5_Witness ==
    /\ last.url = "https://www.worldtradingdata.com/api/v1/forex?base=USD&api_token="
    /\ api_key = S("")

(* C6: a list-valued argument [a, b, c] of one or more elements is written  *)
(* `name=a,b,c&`: the string forms of its elements in order, a single comma *)
(* between two of them, none before the first or after the last.            *)
ElemText(x) == IF x.t = "str" THEN x.v ELSE "3"
C6_ListFragment ==
    /\ Requested =>
        \A i \in 1..Len(last.args) :
            (last.args[i].t = "list" /\ last.args[i].v # <<>>) =>
                LET xs == last.args[i].v
                    name == Names[last.op][i] \o "="
                    frag == FragmentText(last.url, Names[last.op][i])
                IN  /\ StartsWith(frag, name) /\ EndsWith(frag, "&")
                    /\ Split(SubSeq(frag, Len(name) + 1, Len(frag) - 1))
                           = [k \in 1..Len(xs) |-> ElemText(xs[k])]
    /\ (Requested /\ last.op = "search" /\ last.args[3] # Unset) =>
        /\ FragmentText(last.url, "stock_exchange") = "stock_exchange=NYSE,NASDAQ&"
        /\ Contains(last.url, "?search_term=apple&")

C6_Witness ==
    /\ last.op = "stocks" /\ last.gets = 1
    /\ last.args[1] = L(<<I(3), S("A")>>)
    /\ Contains(last.url, "?symbol=3,A&")

(* C7: the status is checked before the body is decoded and nothing is      *)
(* caught: 200 with a decodable body returns the decoded value, 200 with a  *)
(* malformed body lets the decode error through, and any other status       *)
(* raises APIAccessError even when the body is malformed.                   *)
C7_StatusThenDecode ==
    Requested =>
        /\ (last.resp.status_code = 200 /\ last.resp.text = "7") =>
               last.out = [kind |-> "return", value |-> I(7), detail |-> ""]
        /\ (last.resp.status_code = 200 /\ last.resp.text = "not found") =>
               last.out.kind = "JSONDecodeError" /\ last.out.value = None
        /\ last.resp.status_code # 200 => last.out.kind = "APIAccessError"

C7_Witness ==
    /\ Requested /\ last.out.kind = "JSONDecodeError"
    /\ last.resp = [status_code |-> 200, text |-> "not found"]

(* C8: set_api_key stores whatever it is given and never raises, an empty   *)
(* or None token included.                                                  *)
C8_SetterStores ==
    last.op = "set_api_key" =>
        /\ api_key = last.args[1]
        /\ last.out.kind = "return"
        /\ constructed

C8_Witness == last.op = "set_api_key" /\ last.args[1] = None /\ api_key = None

(* the base URL each operation is to request *)
BaseOf ==
    [ stocks |-> "https://www.worldtradingdata.com/api/v1/stock",
      mutual_fund |-> "https://www.worldtradingdata.com/api/v1/mutualfund",
      intraday |-> "https://www.worldtradingdata.com/api/v1/intraday",
      historic_data |-> "https://www.worldtradingdata.com/api/v1/history",
      historic_multi_single_day |->
          "https://www.worldtradingdata.com/api/v1/history_multi_single_day",
      forex |-> "https://www.worldtradingdata.com/api/v1/forex",
      forex_historic |-> "https://www.worldtradingdata.com/api/v1/forex_history",
      forex_historic_single_day |->
          "https://www.worldtradingdata.com/api/v1/forex_single_day",
      search |-> "https://www.worldtradingdata.com/api/v1/stock_search" ]

OneRequestTo(op) ==
    /\ last.gets = 1
    /\ StartsWith(last.url, BaseOf[op] \o "?")
    /\ Cardinality(Occurs(last.url, "?")) = 1

(* C9, as stated: every call of an operation issues exactly one GET, to the *)
(* base URL registered for that operation followed by "?" and the query.    *)
C9_OneRequest == IsOp => OneRequestTo(last.op)

(* C9, amended: a call of an operation made while the stored token is a     *)
(* string issues exactly one GET, to the base URL registered for that       *)
(* operation followed by "?" and the query, and then returns or fails; a    *)
(* call made while the stored token is None fails with a TypeError while    *)
(* the URL is built and issues no request.                                  *)
C9_OneRequestIfTokenIsStr ==
    IsOp =>
        IF api_key.t = "str"
        THEN /\ OneRequestTo(last.op)
             /\ last.out.kind \in {"return", "APIAccessError", "JSONDecodeError"}
        ELSE last.gets = 0 /\ last.url = "" /\ last.out.kind = "TypeError"

C9_Witness ==
    /\ last.op = "historic_multi_single_day" /\ last.gets = 1
    /\ StartsWith(last.url,
           "https://www.worldtradingdata.com/api/v1/history_multi_single_day?symbol=")

(* C10: an argument is written if and only if its value is not None, so 0   *)
(* gives `name=0&`, False gives `name=False&`, the empty string and the     *)
(* empty list give `name=&`; the fragments come in the order the operation  *)
(* passes its arguments and nothing else is written before the token.       *)
Passed(op, i) ==
    IF last.args[i] = Unset THEN HasDefault(op, i) ELSE last.args[i] # None
C10_EmittedIffNotNone ==
    Requested =>
        LET op == last.op
            url == last.url
            name(i) == Names[op][i]
            passed == {i \in 1..Len(Names[op]) : Passed(op, i)}
        IN  /\ \A i \in 1..Len(Names[op]) : HasFragment(url, name(i)) <=> i \in passed
            /\ \A i \in passed :
                /\ last.args[i] = I(0) => FragmentText(url, name(i)) = name(i) \o "=0&"
                /\ last.args[i] = B(FALSE) =>
                       FragmentText(url, name(i)) = name(i) \o "=False&"
                /\ last.args[i] \in {S(""), L(<<>>)} =>
                       FragmentText(url, name(i)) = name(i) \o "=&"
            /\ \A i, j \in passed :
                i < j => Least(FragmentAt(url, name(i))) < Least(FragmentAt(url, name(j)))
            /\ Cardinality(Occurs(url, "&")) = Cardinality(passed)

C10_Witness ==
    /\ last.op = "search" /\ last.gets = 1
    /\ last.args[4] = L(<<>>) /\ last.args[5] = I(0) /\ last.args[2] = Unset
    /\ Contains(last.url, "?search_term=apple&currency=&limit=0&")

=============================================================================
